---- MODULE Spec2Model ----
(***************************************************************************)
(* bwx_sdk source-normalisation scripts.                                   *)
(*                                                                         *)
(*   scripts/remove_doxygen_comments.py   the Comment Stripper             *)
(*   scripts/make_my_src_beauty.py        Header Notice Injector,          *)
(*                                        Blank-Line Collapser, Formatter  *)
(*                                        Adapter and its batch walker     *)
(*                                                                         *)
(* A line is a TLA+ string, i.e. a sequence of characters, exactly as      *)
(* Python holds it (terminator "\n" included).  A file on disk is one      *)
(* string; readlines()/writelines() convert between the two.  The regular  *)
(* expressions of the scripts are modelled by their matching semantics.    *)
(***************************************************************************)
EXTENDS Integers, Sequences, FiniteSets, TLC

VARIABLES
    disk,                  \* [path -> text]: the files under the root directory
    fault,                 \* [path -> "none" | "unreadable" | "readonly" | "badutf8"]
    formatter,             \* "present" | "missing" | "notexec": the clang-format executable
    tool,                  \* "strip" | "format": which script's main() is running
                           \* ("pipeline", "collapse": its functions applied alone)
    todo,                  \* paths os.walk has still to yield, in order
    status,                \* "running" | "done" | "crashed" (uncaught exception)
    exit_code,             \* the process's exit status once it has ended, else -1 as "none"
    stdout,                \* what has been printed, in order
    runs,                  \* how many times the script has been started on the tree
    pc,                    \* "walk" | "scan": between files, or inside the stripper's loop
    file_path,             \* the file being processed (last processed)
    lines,                 \* local `lines`
    idx,                   \* lines already consumed by the `for line in lines` loop
    inside_block_comment,  \* local `inside_block_comment`
    cleaned_lines,         \* local `cleaned_lines`
    fmt                    \* outcome of the last run_clang_format call

vars == <<disk, fault, formatter, tool, todo, status, exit_code, stdout, runs, pc,
          file_path, lines, idx, inside_block_comment, cleaned_lines, fmt>>

-----------------------------------------------------------------------------
(* Bounds of the model.                                                    *)

MaxLines == 3       \* pieces (lines) of a file handed to the Comment Stripper
MaxFmtLines == 3    \* pieces (lines) of a file handed to the formatter script
MaxRuns == 2        \* times the formatter script is started on the same tree

-----------------------------------------------------------------------------
(* Strings.                                                                *)

Min(S) == CHOOSE x \in S : \A y \in S : x <= y
Max(S) == CHOOSE x \in S : \A y \in S : x >= y

Ch(s, i) == SubSeq(s, i, i)

\* The characters Python's \s and str.strip() treat as whitespace, of those
\* the model's texts use.
Whitespace == {" ", "\t", "\n"}

\* Characters matched by \w.
WordChars ==
    {"a","b","c","d","e","f","g","h","i","j","k","l","m","n","o","p","q","r","s",
     "t","u","v","w","x","y","z","A","B","C","D","E","F","G","H","I","J","K","L",
     "M","N","O","P","Q","R","S","T","U","V","W","X","Y","Z","0","1","2","3","4",
     "5","6","7","8","9","_"}

\* lit occurs in s starting at position i.
HasAt(s, i, lit) ==
    /\ i >= 1
    /\ i + Len(lit) - 1 <= Len(s)
    /\ SubSeq(s, i, i + Len(lit) - 1) = lit

\* `lit in s`, and re.search of an escaped literal.
Contains(s, lit) == \E i \in 1..Len(s) : HasAt(s, i, lit)

\* str.startswith
StartsWith(s, lit) == HasAt(s, 1, lit)

\* str.endswith
EndsWith(s, lit) == HasAt(s, Len(s) - Len(lit) + 1, lit)

\* The number of whitespace characters s starts with.
LeadingWs(s) ==
    CHOOSE k \in 0..Len(s) :
        /\ \A i \in 1..k : Ch(s, i) \in Whitespace
        /\ k = Len(s) \/ Ch(s, k + 1) \notin Whitespace

\* The number of whitespace characters s ends with.
TrailingWs(s) ==
    CHOOSE k \in 0..Len(s) :
        /\ \A i \in (Len(s) - k + 1)..Len(s) : Ch(s, i) \in Whitespace
        /\ k = Len(s) \/ Ch(s, Len(s) - k) \notin Whitespace

\* str.strip()
Strip(s) ==
    IF LeadingWs(s) = Len(s) THEN ""
    ELSE SubSeq(s, LeadingWs(s) + 1, Len(s) - TrailingWs(s))

\* "".join(seq), which is also what file.writelines(seq) puts on disk.
RECURSIVE Concat(_)
Concat(seq) == IF seq = <<>> THEN "" ELSE Head(seq) \o Concat(Tail(seq))

\* Where the line that starts at position start ends: at its "\n", or at the
\* end of the text.
LineEnd(text, start) ==
    CHOOSE e \in start..Len(text) :
        /\ Ch(text, e) = "\n" \/ e = Len(text)
        /\ \A k \in start..(e - 1) : Ch(text, k) /= "\n"

RECURSIVE ReadFrom(_, _)
ReadFrom(text, start) ==
    IF start > Len(text) THEN <<>>
    ELSE <<SubSeq(text, start, LineEnd(text, start))>>
         \o ReadFrom(text, LineEnd(text, start) + 1)

\* file.readlines(): the text cut after every "\n", terminators kept.
ReadLines(text) == ReadFrom(text, 1)

\* The "\n" a line of readlines() ends with, if it has one.
Terminator(line) == IF EndsWith(line, "\n") THEN "\n" ELSE ""

Last(seq) == seq[Len(seq)]

-----------------------------------------------------------------------------
(* remove_doxygen_comments.py                                              *)

\* re.match(r'\s*<lit>', line) for a literal that starts with no whitespace.
ReMatchWsLit(line, lit) ==
    \E k \in 0..Len(line) :
        /\ \A i \in 1..k : Ch(line, i) \in Whitespace
        /\ HasAt(line, k + 1, lit)

\* re.sub(r'\s*<lit>.*$', '', line) on a line of readlines(): the leftmost
\* match starts at the first position from which whitespace leads to lit; .*
\* runs to the terminator, which $ leaves in place.
ReSubToEnd(line, lit) ==
    LET starts == {i \in 1..Len(line) :
                     \E j \in i..Len(line) :
                        /\ \A k \in i..(j - 1) : Ch(line, k) \in Whitespace
                        /\ HasAt(line, j, lit)}
    IN  IF starts = {} THEN line
        ELSE SubSeq(line, 1, Min(starts) - 1) \o Terminator(line)

\* Lines 34: the line opens a /** or /*! block.
IsBlockOpener(line) == ReMatchWsLit(line, "/**") \/ ReMatchWsLit(line, "/*!")

\* StripInline, had line 41 been left out: //! stays.
StripInline_OnlyArrow(line) == ReSubToEnd(line, "///<")

\* Lines 40-41: the two inline markers are cut off, ///< first.
StripInline(line) == ReSubToEnd(ReSubToEnd(line, "///<"), "//!")

\* Lines 44-49: what the loop body appends for a line that is no part of a block.
EmitLine(cleaned, line) ==
    LET stripped_line == Strip(line)
        prev_solid == cleaned /= <<>> /\ Strip(Last(cleaned)) /= ""
    IN  IF stripped_line /= "" \/ prev_solid
        THEN Append(cleaned, StripInline(line))
        ELSE IF prev_solid THEN Append(cleaned, "\n") ELSE cleaned

\* ScanStep, had line 35 been left out: an opener always starts a block.
ScanStep_OpenerAlwaysEnters(fr, line) ==
    IF fr.inside
    THEN [inside |-> ~Contains(line, "*/"), cleaned |-> fr.cleaned]
    ELSE IF IsBlockOpener(line)
         THEN [inside |-> TRUE, cleaned |-> fr.cleaned]
         ELSE [inside |-> FALSE, cleaned |-> EmitLine(fr.cleaned, line)]

\* Lines 25-49: one iteration of `for line in lines`, on the scanner's frame.
ScanStep(fr, line) ==
    IF fr.inside
    THEN [inside |-> ~Contains(line, "*/"), cleaned |-> fr.cleaned]
    ELSE IF IsBlockOpener(line)
         THEN [inside |-> ~Contains(line, "*/"), cleaned |-> fr.cleaned]
         ELSE [inside |-> FALSE, cleaned |-> EmitLine(fr.cleaned, line)]

\* Lines 52-53.
RECURSIVE PopLeadingBlank(_)
PopLeadingBlank(seq) ==
    IF seq /= <<>> /\ Strip(Head(seq)) = "" THEN PopLeadingBlank(Tail(seq)) ELSE seq

\* Lines 54-55.
RECURSIVE PopTrailingBlank(_)
PopTrailingBlank(seq) ==
    IF seq /= <<>> /\ Strip(Last(seq)) = ""
    THEN PopTrailingBlank(SubSeq(seq, 1, Len(seq) - 1))
    ELSE seq

\* Lines 51-55.
TrimBlank(seq) == PopTrailingBlank(PopLeadingBlank(seq))

\* Lines 22-55 as a function of the lines read: the loop, then the trimming.
RECURSIVE ScanAll(_, _)
ScanAll(fr, ls) == IF ls = <<>> THEN fr ELSE ScanAll(ScanStep(fr, Head(ls)), Tail(ls))

StripLines(ls) == TrimBlank(ScanAll([inside |-> FALSE, cleaned |-> <<>>], ls).cleaned)

-----------------------------------------------------------------------------
(* make_my_src_beauty.py: the pure parts                                   *)

\* Line 26-32.
HEADER_NOTICE ==
    "\n// WARNING! This is a lightweight, automatically formatted version of the file."
    \o "\n// The file has been processed by clang-format and Python scripts of the project."
    \o "\n// (https://github.com/bartoszwarzocha/bwx_sdk/tree/master/scripts)"
    \o "\n// Full versions of source code files, including hidden sections and Doxygen comments,"
    \o "\n// can be found in the 'src' directory.\n"

\* Line 67: HEADER_NOTICE.strip()
NoticeMarker == Strip(HEADER_NOTICE)

\* lines.insert(index, x)
InsertAt(seq, index, x) ==
    SubSeq(seq, 1, index) \o <<x>> \o SubSeq(seq, index + 1, Len(seq))

\* Lines 64-66: the length of the leading run of //-lines.
LeadingCommentRun(ls) ==
    Max({n \in 0..Len(ls) : \A i \in 1..n : StartsWith(Strip(ls[i]), "//")})

\* Lines 61-69.
insert_header_notice(ls) ==
    IF ls /= <<>> /\ StartsWith(Strip(ls[1]), "//")
    THEN IF ~(\E i \in 1..Len(ls) : Contains(ls[i], NoticeMarker))
         THEN InsertAt(ls, LeadingCommentRun(ls), HEADER_NOTICE \o "\n")
         ELSE ls
    ELSE ls

\* Positions a regular expression can be at after X+ (X a character class),
\* having been at one of the positions P (a position counts the characters
\* consumed).
AfterPlus(s, P, class) ==
    IF P = {} THEN {}
    ELSE {q \in 1..Len(s) :
            /\ Ch(s, q) \in class
            /\ \E p \in P : p < q /\ \A k \in (p + 1)..(q - 1) : Ch(s, k) \in class}

\* ... after X*.
AfterStar(s, P, class) == P \cup AfterPlus(s, P, class)

\* ... after a literal.
AfterLit(s, P, lit) == {p + Len(lit) : p \in {x \in P : HasAt(s, x + 1, lit)}}

\* Line 79, the pattern:
\* ^(constexpr\s+|inline\s+|static\s+|virtual\s+|\w+\s+)?[\w\*&<>]+\s+[\w_]+\s*\(
MatchesFunctionPattern(s) ==
    LET kw(word) == AfterPlus(s, AfterLit(s, {0}, word), Whitespace)
        group == {0} \cup kw("constexpr") \cup kw("inline") \cup kw("static")
                     \cup kw("virtual")
                     \cup AfterPlus(s, AfterPlus(s, {0}, WordChars), Whitespace)
        type == AfterPlus(s, group, WordChars \cup {"*", "&", "<", ">"})
        gap == AfterPlus(s, type, Whitespace)
        name == AfterPlus(s, gap, WordChars)
    IN  AfterLit(s, AfterStar(s, name, Whitespace), "(") /= {}

\* Line 81, the pattern: ^[\w\s\*&<>]+\s+[\w_]+\s*[=;]
MatchesVariablePattern(s) ==
    LET type == AfterPlus(s, {0}, WordChars \cup Whitespace \cup {"*", "&", "<", ">"})
        gap == AfterPlus(s, type, Whitespace)
        name == AfterPlus(s, gap, WordChars)
        tail == AfterStar(s, name, Whitespace)
    IN  AfterLit(s, tail, "=") \cup AfterLit(s, tail, ";") /= {}

\* Lines 78-83.
detect_line_type(line) ==
    IF MatchesFunctionPattern(line) /\ EndsWith(Strip(line), ";") THEN "function"
    ELSE IF MatchesVariablePattern(line) THEN "variable"
    ELSE "other"

\* CleanStep, had lines 92-93 been left out: runs of blank lines stay.
CleanStep_KeepsBlankRuns(fr, line) ==
    LET stripped == Strip(line)
        current_type == detect_line_type(stripped)
        skip == /\ stripped = ""
                /\ fr.prev_type \in {"function", "variable"} /\ current_type = fr.prev_type
    IN  IF skip THEN fr
        ELSE [cleaned |-> Append(fr.cleaned, line),
              prev_type |-> IF stripped /= "" THEN current_type ELSE fr.prev_type]

\* CleanStep, had line 90 not compared current_type with prev_type: a blank
\* line after any declaration is dropped.
CleanStep_DropsAfterDeclaration(fr, line) ==
    LET stripped == Strip(line)
        current_type == detect_line_type(stripped)
        skip == /\ stripped = ""
                /\ \/ fr.prev_type \in {"function", "variable"}
                   \/ fr.cleaned /= <<>> /\ Strip(Last(fr.cleaned)) = ""
    IN  IF skip THEN fr
        ELSE [cleaned |-> Append(fr.cleaned, line),
              prev_type |-> IF stripped /= "" THEN current_type ELSE fr.prev_type]

\* Lines 86-96: the loop body, on the pass's frame (cleaned, prev_type).
CleanStep(fr, line) ==
    LET stripped == Strip(line)
        current_type == detect_line_type(stripped)
        skip == /\ stripped = ""
                /\ \/ fr.prev_type \in {"function", "variable"} /\ current_type = fr.prev_type
                   \/ fr.cleaned /= <<>> /\ Strip(Last(fr.cleaned)) = ""
    IN  IF skip THEN fr
        ELSE [cleaned |-> Append(fr.cleaned, line),
              prev_type |-> IF stripped /= "" THEN current_type ELSE fr.prev_type]

RECURSIVE CleanLoop(_, _)
CleanLoop(fr, ls) == IF ls = <<>> THEN fr ELSE CleanLoop(CleanStep(fr, Head(ls)), Tail(ls))

\* Lines 75-98: one pass.
CleanPass(ls) == CleanLoop([cleaned |-> <<>>, prev_type |-> "None"], ls).cleaned

\* Line 72: the default of `iterations`.
Iterations == 3

RECURSIVE CleanIterate(_, _)
CleanIterate(ls, n) == IF n = 0 THEN ls ELSE CleanIterate(CleanPass(ls), n - 1)

\* Lines 72-100.
clean_empty_lines(ls) == CleanIterate(ls, Iterations)

\* str.splitlines() of a text whose only line break is "\n".
SplitLines(text) ==
    LET ls == ReadLines(text)
    IN  [k \in 1..Len(ls) |-> SubSeq(ls[k], 1, Len(ls[k]) - Len(Terminator(ls[k])))]

\* "\n".join(seq)
RECURSIVE JoinLines(_)
JoinLines(seq) ==
    IF seq = <<>> THEN ""
    ELSE IF Len(seq) = 1 THEN seq[1]
    ELSE Head(seq) \o "\n" \o JoinLines(Tail(seq))

-----------------------------------------------------------------------------
(* The environment: the directory tree, its faults, the formatter.         *)

\* remove_doxygen_comments.py line 62, make_my_src_beauty.py line 130.
Extensions == {".cpp", ".c", ".h", ".hpp", ".cxx", ".cc"}

Eligible(path) == \E ext \in Extensions : EndsWith(path, ext)

\* The order in which os.walk yields the files of the tree.
AllPaths == <<"a.h", "n.txt", "b.cpp">>

InTree(path) == path \in DOMAIN disk

WalkOrder == SelectSeq(AllPaths, InTree)

Faults == {"none", "unreadable", "readonly", "badutf8"}

\* The texts made of at most n of the given pieces.
RECURSIVE TextsUpTo(_, _)
TextsUpTo(pieces, n) ==
    IF n = 0 THEN {""}
    ELSE LET shorter == TextsUpTo(pieces, n - 1)
         IN  shorter \cup {t \o piece : t \in shorter, piece \in pieces}

\* What clang-format may print for a text it accepts: the text as it is, or
\* with an empty line put after its first line.
FormatterOutputs(text) ==
    LET ls == SplitLines(text)
    IN  {text} \cup
        IF ls = <<>> THEN {}
        ELSE {JoinLines(<<ls[1], "">> \o Tail(ls)) \o "\n"}

-----------------------------------------------------------------------------
(* Both scripts: walking the tree (process_directory,                      *)
(* format_cpp_files_in_directory) and the end of the process.              *)

\* An exception nobody catches: traceback, exit status 1.
Crash == status' = "crashed" /\ exit_code' = 1

\* The walk passes over a file whose name has none of the extensions.
SkipFile ==
    /\ status = "running" /\ pc = "walk" /\ todo /= <<>>
    /\ ~Eligible(Head(todo))
    /\ todo' = Tail(todo)
    /\ UNCHANGED <<disk, fault, formatter, tool, status, exit_code, stdout, runs, pc,
                   file_path, lines, idx, inside_block_comment, cleaned_lines, fmt>>

\* The walk is over: main returns and the interpreter exits with status 0.
WalkDone ==
    /\ status = "running" /\ pc = "walk" /\ todo = <<>>
    /\ status' = "done" /\ exit_code' = 0
    /\ UNCHANGED <<disk, fault, formatter, tool, todo, stdout, runs, pc,
                   file_path, lines, idx, inside_block_comment, cleaned_lines, fmt>>

-----------------------------------------------------------------------------
(* remove_doxygen_comments.py: process_directory and                       *)
(* remove_doxygen_comments_from_file, one loop iteration per step.         *)

\* Lines 66-20: the file is announced and read; UnicodeDecodeError falls back
\* to latin1, any other error of open() is not caught.
StripOpen ==
    /\ tool = "strip" /\ status = "running" /\ pc = "walk" /\ todo /= <<>>
    /\ Eligible(Head(todo))
    /\ LET path == Head(todo) IN
        /\ file_path' = path
        /\ stdout' = Append(stdout, "Processing file: " \o path)
        /\ \/ /\ fault[path] = "unreadable"
              /\ Crash
              /\ UNCHANGED <<pc, lines, idx, inside_block_comment, cleaned_lines>>
           \/ /\ fault[path] /= "unreadable"
              /\ lines' = ReadLines(disk[path])
              /\ idx' = 0
              /\ inside_block_comment' = FALSE
              /\ cleaned_lines' = <<>>
              /\ pc' = "scan"
              /\ UNCHANGED <<status, exit_code>>
    /\ UNCHANGED <<disk, fault, formatter, tool, todo, runs, fmt>>

\* Lines 25-49: one iteration of the loop.
ScanLine ==
    /\ tool = "strip" /\ status = "running" /\ pc = "scan" /\ idx < Len(lines)
    /\ LET fr == ScanStep([inside |-> inside_block_comment, cleaned |-> cleaned_lines],
                          lines[idx + 1])
       IN  /\ inside_block_comment' = fr.inside
           /\ cleaned_lines' = fr.cleaned
    /\ idx' = idx + 1
    /\ UNCHANGED <<disk, fault, formatter, tool, todo, status, exit_code, stdout, runs,
                   pc, file_path, lines, fmt>>

\* Lines 51-59: the loop is over; blank lines are trimmed off both ends and
\* the file is written back as UTF-8.  Then the walk goes on.
StripWrite ==
    /\ tool = "strip" /\ status = "running" /\ pc = "scan" /\ idx = Len(lines)
    /\ cleaned_lines' = TrimBlank(cleaned_lines)
    /\ \/ /\ fault[file_path] = "readonly"
          /\ Crash
          /\ UNCHANGED <<disk, fault, todo, pc>>
       \/ /\ fault[file_path] /= "readonly"
          /\ disk' = [disk EXCEPT ![file_path] = Concat(cleaned_lines')]
          /\ fault' = [fault EXCEPT ![file_path] = "none"]
          /\ todo' = Tail(todo)
          /\ pc' = "walk"
          /\ UNCHANGED <<status, exit_code>>
    /\ UNCHANGED <<formatter, tool, stdout, runs, file_path, lines, idx,
                   inside_block_comment, fmt>>

NextStrip == SkipFile \/ WalkDone \/ StripOpen \/ ScanLine \/ StripWrite

-----------------------------------------------------------------------------
(* make_my_src_beauty.py: format_cpp_file, one step per call, by outcome.  *)

\* Lines 103-104: the walk calls format_cpp_file on the next eligible file.
FormatCall ==
    /\ tool = "format" /\ status = "running" /\ pc = "walk" /\ todo /= <<>>
    /\ Eligible(Head(todo))
    /\ file_path' = Head(todo)
    /\ UNCHANGED <<fault, formatter, tool, runs, pc, idx, inside_block_comment>>

\* Lines 105-109: the file is read, the notice inserted, blank lines collapsed.
FormatRead ==
    /\ lines' = insert_header_notice(ReadLines(disk[Head(todo)]))
    /\ cleaned_lines' = clean_empty_lines(lines')

\* Lines 105-106: open() or the utf-8-sig decoding raises; nothing catches it.
FormatOpenFails ==
    /\ FormatCall
    /\ fault[Head(todo)] \in {"unreadable", "badutf8"}
    /\ Crash
    /\ fmt' = "none"
    /\ UNCHANGED <<disk, todo, stdout, lines, cleaned_lines>>

\* Line 111: the file cannot be opened for writing; nothing catches it.
FormatWriteFails ==
    /\ FormatCall
    /\ fault[Head(todo)] = "readonly"
    /\ FormatRead
    /\ Crash
    /\ fmt' = "none"
    /\ UNCHANGED <<disk, todo, stdout>>

\* FormatterMissing, had lines 56-58 been left out: FileNotFoundError is not
\* caught.
FormatterMissing_Raises ==
    /\ FormatCall
    /\ fault[Head(todo)] = "none" /\ formatter = "missing"
    /\ FormatRead
    /\ disk' = [disk EXCEPT ![Head(todo)] = Concat(cleaned_lines')]
    /\ fmt' = "notfound"
    /\ Crash
    /\ UNCHANGED <<todo, stdout>>

\* Lines 111-112, 56-58, 115-116: the file is written; FileNotFoundError is
\* caught and reported, None is returned, format_cpp_file returns and the
\* walk goes on.
FormatterMissing ==
    /\ FormatCall
    /\ fault[Head(todo)] = "none" /\ formatter = "missing"
    /\ FormatRead
    /\ disk' = [disk EXCEPT ![Head(todo)] = Concat(cleaned_lines')]
    /\ fmt' = "notfound"
    /\ stdout' = Append(stdout, "clang-format not found! Make sure it is installed and available in PATH.")
    /\ todo' = Tail(todo)
    /\ UNCHANGED <<status, exit_code>>

\* Lines 111-112, 47-50: the file is written; the executable is found but
\* cannot be started: subprocess.run raises an OSError other than
\* FileNotFoundError, which nothing catches.
FormatterNotExecutable ==
    /\ FormatCall
    /\ fault[Head(todo)] = "none" /\ formatter = "notexec"
    /\ FormatRead
    /\ disk' = [disk EXCEPT ![Head(todo)] = Concat(cleaned_lines')]
    /\ fmt' = "oserror"
    /\ Crash
    /\ UNCHANGED <<todo, stdout>>

\* FormatterFails, had the failing formatter's empty output been written as
\* lines 118-121 write the output of a successful one.
FormatterFails_WritesOutput ==
    /\ FormatCall
    /\ fault[Head(todo)] = "none" /\ formatter = "present"
    /\ FormatRead
    /\ disk' = [disk EXCEPT ![Head(todo)] = JoinLines(clean_empty_lines(<<>>)) \o "\n"]
    /\ fmt' = "failed"
    /\ stdout' = Append(stdout, "clang-format error:")
    /\ todo' = Tail(todo)
    /\ UNCHANGED <<status, exit_code>>

\* Lines 111-112, 53-55, 115-116: the file is written; clang-format ran and
\* returned a non-zero status.
FormatterFails ==
    /\ FormatCall
    /\ fault[Head(todo)] = "none" /\ formatter = "present"
    /\ FormatRead
    /\ disk' = [disk EXCEPT ![Head(todo)] = Concat(cleaned_lines')]
    /\ fmt' = "failed"
    /\ stdout' = Append(stdout, "clang-format error:")
    /\ todo' = Tail(todo)
    /\ UNCHANGED <<status, exit_code>>

\* Lines 111-112, 51-52, 118-123: the file is written; clang-format printed
\* the formatted text; it is collapsed again and written with "\n" between
\* and after the lines.
FormatterSucceeds ==
    /\ FormatCall
    /\ fault[Head(todo)] = "none" /\ formatter = "present"
    /\ FormatRead
    /\ \E out \in FormatterOutputs(Concat(cleaned_lines')) :
          disk' = [disk EXCEPT ![Head(todo)] =
                      JoinLines(clean_empty_lines(SplitLines(out))) \o "\n"]
    /\ fmt' = "ok"
    /\ stdout' = Append(stdout, "File " \o Head(todo) \o " has been formatted.")
    /\ todo' = Tail(todo)
    /\ UNCHANGED <<status, exit_code>>

\* The script is started again on the tree it has processed.
Rerun ==
    /\ tool = "format" /\ status = "done" /\ runs < MaxRuns
    /\ runs' = runs + 1
    /\ status' = "running" /\ exit_code' = -1
    /\ todo' = WalkOrder
    /\ stdout' = <<>>
    /\ file_path' = "" /\ lines' = <<>> /\ cleaned_lines' = <<>> /\ fmt' = "none"
    /\ UNCHANGED <<disk, fault, formatter, tool, pc, idx, inside_block_comment>>

NextFormat ==
    \/ SkipFile \/ WalkDone \/ Rerun
    \/ FormatOpenFails \/ FormatWriteFails
    \/ FormatterMissing \/ FormatterNotExecutable \/ FormatterFails \/ FormatterSucceeds

-----------------------------------------------------------------------------
(* Specifications.                                                         *)

\* The process has just been started on the tree `disk`.
Started ==
    /\ todo = WalkOrder
    /\ status = "running" /\ exit_code = -1 /\ stdout = <<>> /\ runs = 1
    /\ pc = "walk" /\ file_path = ""
    /\ lines = <<>> /\ idx = 0 /\ inside_block_comment = FALSE /\ cleaned_lines = <<>>
    /\ fmt = "none"

\* The tree: one header with the given text, and a file the walk passes over.
Tree(text) == ("a.h" :> text) @@ ("n.txt" :> "notes\n")

NoFault == [path \in {"a.h", "n.txt", "b.cpp"} |-> "none"]

\* Lines the Comment Stripper's cases are made of: code, blank lines, inline
\* markers alone and after code, one-line blocks, openers, closers, and a last
\* line with no terminator.
StripPieces ==
    {"int a;\n", "\n", " \t\n", "///< d\n", "int z; ///< doc\n", "int w;\t//! d\n",
     "x //! a ///< b\n", "/** s */\n", "/**/\n", "/**\n", "  /*! a\n", "b */ c\n",
     "int q;"}

\* The pieces longer files are made of.
CorePieces == {"int a;\n", "\n", "///< d\n", "/**\n"}

\* Markers that touch other slashes or follow a run of whitespace; these make
\* the shorter files.
EdgePieces == {"////< q\n", "a///!b\n", "int y;  \t ///<\n", " //! c"}

StripTexts ==
    TextsUpTo(StripPieces, MaxLines)
        \cup TextsUpTo(CorePieces, MaxLines + 1)
        \cup TextsUpTo(StripPieces \cup EdgePieces, MaxLines - 1)

\* The pieces of the texts the Stripper and the Collapser are applied to in
\* turn.
PipelinePieces ==
    {"int a;\n", "\n", " \t\n", "///< d\n", "int z; ///< doc\n", "x //! a ///< b\n",
     "  /*! a\n", "b */ c\n", "int q;"}

PipelineTexts ==
    TextsUpTo(PipelinePieces, MaxLines) \cup TextsUpTo(CorePieces, MaxLines + 1)

\* Small texts, for the steps that do not look at the text.
FewTexts == {"", "// h\nint a;\n", "int f();\n\nint g();\n", "int a;\n\n\nx();\n"}

\* remove_doxygen_comments.py on a directory with one header.
InitStrip ==
    /\ tool = "strip" /\ formatter = "present"
    /\ \/ /\ disk \in {Tree(text) : text \in StripTexts}
          /\ fault = NoFault
       \/ /\ disk \in {Tree(text) : text \in FewTexts}
          /\ fault \in {[NoFault EXCEPT !["a.h"] = f] : f \in Faults}
    /\ Started

Spec == InitStrip /\ [][NextStrip]_vars

\* Lines the formatter script's cases are made of: a header comment, function
\* and variable declarations, a statement, blank lines.
FmtPieces == {"// h\n", "int f();\n", "int g();\n", "int x;\n", "x();\n", "\n"}

\* make_my_src_beauty.py on a directory with one header, run and run again.
InitFormat ==
    /\ tool = "format" /\ formatter \in {"present", "missing", "notexec"}
    /\ \/ /\ disk \in {Tree(text) : text \in TextsUpTo(FmtPieces, MaxFmtLines)}
          /\ fault = NoFault
       \/ /\ disk \in {Tree(text) : text \in FewTexts}
          /\ fault \in {[NoFault EXCEPT !["a.h"] = f] : f \in Faults}
    /\ Started

SpecFormat == InitFormat /\ [][NextFormat]_vars

\* Either script on a directory with two sources, each possibly faulty.
InitBatch ==
    /\ tool \in {"strip", "format"} /\ formatter \in {"present", "missing", "notexec"}
    /\ disk \in {Tree(t1) @@ ("b.cpp" :> t2) : t1 \in FewTexts, t2 \in FewTexts}
    /\ fault \in {[NoFault EXCEPT !["a.h"] = f1, !["b.cpp"] = f2] : f1 \in Faults, f2 \in Faults}
    /\ Started

SpecBatch == InitBatch /\ [][NextStrip \/ NextFormat]_vars

\* The Comment Stripper followed by the Blank-Line Collapser, applied to a
\* text and then to its own result.
StripCollapse ==
    /\ tool = "pipeline" /\ runs < 2
    /\ lines' = IF runs = 0 THEN ReadLines(disk["a.h"]) ELSE cleaned_lines
    /\ cleaned_lines' = clean_empty_lines(StripLines(lines'))
    /\ runs' = runs + 1
    /\ UNCHANGED <<disk, fault, formatter, tool, todo, status, exit_code, stdout, pc,
                   file_path, idx, inside_block_comment, fmt>>

InitPipeline ==
    /\ tool = "pipeline" /\ formatter = "present"
    /\ disk \in {Tree(text) : text \in PipelineTexts}
    /\ fault = NoFault
    /\ todo = <<>> /\ status = "running" /\ exit_code = -1 /\ stdout = <<>> /\ runs = 0
    /\ pc = "walk" /\ file_path = "a.h"
    /\ lines = <<>> /\ idx = 0 /\ inside_block_comment = FALSE /\ cleaned_lines = <<>>
    /\ fmt = "none"

SpecPipeline == InitPipeline /\ [][StripCollapse]_vars

\* Lines the Blank-Line Collapser's cases are made of: declarations of both
\* roles, a statement, an empty line and a line of whitespace.
CollapsePieces == {"int f();\n", "int x;\n", "x();\n", "\n", " \t\n"}

CollapseTexts == TextsUpTo(CollapsePieces, MaxFmtLines + 1)

\* Line 109: clean_empty_lines on the lines readlines() gave (terminators kept).
CollapseRead ==
    /\ tool = "collapse" /\ runs = 0
    /\ lines' = ReadLines(disk["a.h"])
    /\ cleaned_lines' = clean_empty_lines(lines')
    /\ runs' = 1 /\ fmt' = "none"
    /\ UNCHANGED <<disk, fault, formatter, tool, todo, status, exit_code, stdout, pc,
                   file_path, idx, inside_block_comment>>

\* Line 119: clean_empty_lines on the lines splitlines() gave of the
\* formatter's output (no terminators).
CollapseSplit ==
    /\ tool = "collapse" /\ runs = 0
    /\ lines' = SplitLines(disk["a.h"])
    /\ cleaned_lines' = clean_empty_lines(lines')
    /\ runs' = 1 /\ fmt' = "ok"
    /\ UNCHANGED <<disk, fault, formatter, tool, todo, status, exit_code, stdout, pc,
                   file_path, idx, inside_block_comment>>

\* clean_empty_lines alone, on every sequence of lines of the pieces.
InitCollapse ==
    /\ tool = "collapse" /\ formatter = "present"
    /\ disk \in {Tree(text) : text \in CollapseTexts}
    /\ fault = NoFault
    /\ todo = <<>> /\ status = "running" /\ exit_code = -1 /\ stdout = <<>> /\ runs = 0
    /\ pc = "walk" /\ file_path = "a.h"
    /\ lines = <<>> /\ idx = 0 /\ inside_block_comment = FALSE /\ cleaned_lines = <<>>
    /\ fmt = "none"

SpecCollapse == InitCollapse /\ [][CollapseRead \/ CollapseSplit]_vars

-----------------------------------------------------------------------------
(* Vocabulary of the properties.                                           *)

IsBlank(line) == \A i \in 1..Len(line) : Ch(line, i) \in Whitespace

Role(line) == detect_line_type(Strip(line))

\* ls[i] is a blank line, and the nearest non-blank lines on its two sides are
\* declarations of the same role.
SeparatesSameRole(ls, i) ==
    /\ IsBlank(ls[i])
    /\ \E a \in 1..(i - 1), b \in (i + 1)..Len(ls) :
          /\ \A k \in (a + 1)..(b - 1) : IsBlank(ls[k])
          /\ ~IsBlank(ls[a]) /\ ~IsBlank(ls[b])
          /\ Role(ls[a]) = Role(ls[b])
          /\ Role(ls[a]) \in {"function", "variable"}

\* How many times lit occurs in s.
Occurrences(s, lit) == Cardinality({i \in 1..Len(s) : HasAt(s, i, lit)})

\* The line with its leading whitespace taken off.
LStripped(line) == SubSeq(line, LeadingWs(line) + 1, Len(line))

\* The line starts, after leading whitespace, with /** or /*!.
OpensBlock(line) == StartsWith(LStripped(line), "/**") \/ StartsWith(LStripped(line), "/*!")

\* The line contains */.
HasCloser(line) == \E i \in 1..(Len(line) - 1) : Ch(line, i) = "*" /\ Ch(line, i + 1) = "/"

\* Where the inline doc markers ///< and //! start in the line.
MarkerStarts(line) ==
    {i \in 1..Len(line) : HasAt(line, i, "///<") \/ HasAt(line, i, "//!")}

\* The part of the line before its first inline marker, without the whitespace
\* that ends it, and with the line's terminator; the line itself if it has no
\* marker.
BeforeFirstMarker(line) ==
    IF MarkerStarts(line) = {} THEN line
    ELSE LET prefix == SubSeq(line, 1, Min(MarkerStarts(line)) - 1)
         IN  SubSeq(prefix, 1, Len(prefix) - TrailingWs(prefix)) \o Terminator(line)

\* This step is one iteration of the stripper's loop, on the line `lines[idx + 1]`.
ScansALine == pc = "scan" /\ idx < Len(lines) /\ idx' = idx + 1

\* This step is a call of format_cpp_file that got to read the file.
FormatsAFile ==
    /\ tool = "format" /\ status = "running" /\ todo /= <<>>
    /\ file_path' = Head(todo)
    /\ fault[Head(todo)] \in {"none", "readonly"}
    /\ vars' /= vars

\* The stripper has written the file `file_path` back.
Stripped == tool = "strip" /\ pc = "walk" /\ file_path /= "" /\ status /= "crashed"

NonBlank(line) == ~IsBlank(line)

\* The non-blank lines of ls, in order.
Solid(ls) == SelectSeq(ls, NonBlank)

\* The number of blank lines of ls that have exactly k non-blank lines before
\* them: the length of the run of blank lines between the k-th non-blank line
\* and the next (k = 0: at the start; k = Len(Solid(ls)): at the end).
Gap(ls, k) ==
    Cardinality({i \in 1..Len(ls) :
                    /\ IsBlank(ls[i])
                    /\ Cardinality({j \in 1..i : ~IsBlank(ls[j])}) = k})

\* The k-th non-blank line of ls and the next are declarations of the same
\* role.
SameRoleAround(ls, k) ==
    /\ k >= 1 /\ k < Len(Solid(ls))
    /\ Role(Solid(ls)[k]) = Role(Solid(ls)[k + 1])
    /\ Role(Solid(ls)[k]) \in {"function", "variable"}

\* clean_empty_lines has been applied to `lines`, giving `cleaned_lines`.
Collapsed == tool = "collapse" /\ runs = 1

-----------------------------------------------------------------------------
(* The claims.                                                             *)

\* C1: clean_empty_lines leaves no blank line whose nearest non-blank
\* neighbours on both sides are declarations of the same role (function or
\* variable): "int f();", "", "int g();" collapses to "int f();", "int g();".
\* (Non-blank lines are never dropped, so a blank line of the output separates
\* the lines it separated in the input.)
C1_SameRoleBlankRemoved ==
    tool = "format" =>
        \A i \in 1..Len(cleaned_lines) : ~SeparatesSameRole(cleaned_lines, i)

\* C2: however often the pipeline has run on a file, the notice occurs in it
\* at most once.
C2_NoticeAtMostOnce ==
    \A path \in DOMAIN disk : Occurrences(disk[path], NoticeMarker) <= 1

\* C3: insert_header_notice, on a file that does not contain the notice,
\* inserts it once: after the leading run of //-lines when the first line
\* starts with //, and at index 0 otherwise (an empty file included).
C3_NoticePlacement ==
    [][FormatsAFile /\ ~Contains(disk[Head(todo)], NoticeMarker) =>
         LET old == ReadLines(disk[Head(todo)])
             at == IF old /= <<>> /\ StartsWith(Strip(old[1]), "//")
                   THEN LeadingCommentRun(old) ELSE 0
         IN  /\ lines' = InsertAt(old, at, HEADER_NOTICE \o "\n")
             /\ Occurrences(Concat(lines'), NoticeMarker) = 1]_vars

\* C4: the scanner, Normal when a file's scan starts, enters InsideBlockComment
\* exactly on a Normal-state line that starts (after whitespace) with /** or
\* /*! and has no */, and returns to Normal exactly on a line that contains */;
\* an opener line and a line scanned inside a block are never emitted; every
\* other non-blank line is emitted, after the lines emitted before it; and at
\* the end of the file the scan ends without an error even inside a block.
C4_ScanStep ==
    LET line == lines[idx + 1]
        normal == ~inside_block_comment
    IN  /\ pc = "walk" /\ pc' = "scan" => ~inside_block_comment' /\ idx' = 0
        /\ ScansALine =>
             /\ inside_block_comment' <=>
                   \/ normal /\ OpensBlock(line) /\ ~HasCloser(line)
                   \/ inside_block_comment /\ ~HasCloser(line)
             /\ inside_block_comment \/ OpensBlock(line) => cleaned_lines' = cleaned_lines
             /\ normal /\ ~OpensBlock(line) /\ ~IsBlank(line) =>
                   /\ Len(cleaned_lines') = Len(cleaned_lines) + 1
                   /\ SubSeq(cleaned_lines', 1, Len(cleaned_lines)) = cleaned_lines
        /\ pc = "scan" /\ idx = Len(lines) /\ fault[file_path] /= "readonly" /\ vars' /= vars =>
             /\ pc' = "walk" /\ status' = "running"
             /\ disk'[file_path] = Concat(cleaned_lines')

C5_BlankDiscipline ==
    Stripped =>
        LET out == ReadLines(disk[file_path])
        IN  /\ \A i \in 1..(Len(out) - 1) : ~(IsBlank(out[i]) /\ IsBlank(out[i + 1]))
            /\ out /= <<>> => ~IsBlank(out[1]) /\ ~IsBlank(out[Len(out)])

\* C6: the Comment Stripper followed by the Blank-Line Collapser, applied to
\* its own result, returns that result unchanged.
C6_Idempotent == runs = 2 => cleaned_lines = lines

\* C6, witness: the first application changed the text, and its result, with
\* a blank line in it, went through the second.
C6_Witness ==
    /\ tool = "pipeline" /\ runs = 2
    /\ lines /= ReadLines(disk["a.h"])
    /\ \E i \in 1..Len(lines) : IsBlank(lines[i])

\* C7: a file that fails with a read, write, permission or decode error does
\* not abort the batch: the eligible files after it are still processed.
C7_FailureIsolation ==
    (status = "crashed" /\ fmt /= "oserror") =>
        \A i \in 2..Len(todo) : ~Eligible(todo[i])

C9_FormatterFailureKeepsText ==
    [][FormatsAFile /\ fmt' = "failed" =>
         /\ disk' = [disk EXCEPT ![Head(todo)] =
                        Concat(clean_empty_lines(insert_header_notice(ReadLines(disk[Head(todo)]))))]
         /\ status' = "running" /\ todo' = Tail(todo)]_vars

\* C9, witness: clang-format failed on a.h, which holds the injected notice,
\* and the walk is on its way to b.cpp.
C9_Witness ==
    /\ fmt = "failed" /\ file_path = "a.h" /\ status = "running"
    /\ Len(todo) = 2
    /\ Contains(disk["a.h"], NoticeMarker)

\* C10: a line scanned in Normal state that is no block opener is emitted as
\* its part before the first ///< or //! marker, without the whitespace right
\* before the marker and with its terminator; unchanged if it has no marker.
C10_InlineMarkers ==
    [][ScansALine /\ ~inside_block_comment /\ ~OpensBlock(lines[idx + 1])
         /\ cleaned_lines' /= cleaned_lines =>
            cleaned_lines' = Append(cleaned_lines, BeforeFirstMarker(lines[idx + 1]))]_vars

\* C10, witness: "x //! a ///< b" was emitted as "x", and "int z; ///< doc" as
\* "int z;".
C10_Witness ==
    /\ pc = "scan" /\ idx = 2
    /\ lines[1] = "x //! a ///< b\n" /\ lines[2] = "int z; ///< doc\n"
    /\ cleaned_lines = <<"x\n", "int z;\n">>

\* C11: when the stripper has reached the end of a file while still inside a
\* block comment (an opener with no later */), it has printed a warning that
\* names the file: a line other than the "Processing file:" announcement, with
\* the file's path in it.
C11_UnterminatedWarned ==
    Stripped /\ inside_block_comment =>
        \E i \in 1..Len(stdout) :
            /\ Contains(stdout[i], file_path)
            /\ stdout[i] /= "Processing file: " \o file_path

\* C12: clean_empty_lines emits the non-blank lines unchanged and in order;
\* every maximal run of one or more blank lines of the input that does not
\* separate two declarations of the same role leaves exactly one blank line in
\* its place (a run of two or more is reduced to one, a single blank line
\* between a declaration and an unrelated statement stays); and the output has
\* no two consecutive blank lines.
C12_RunsCollapse ==
    Collapsed =>
        /\ Solid(cleaned_lines) = Solid(lines)
        /\ \A k \in 0..Len(Solid(lines)) :
              Gap(lines, k) >= 1 /\ ~SameRoleAround(lines, k) => Gap(cleaned_lines, k) = 1
        /\ \A i \in 1..(Len(cleaned_lines) - 1) :
              ~(IsBlank(cleaned_lines[i]) /\ IsBlank(cleaned_lines[i + 1]))

\* C12, witness: a run of two blank lines between a function declaration and
\* a statement was reduced to one blank line, the declaration and the
\* statement staying as they were.
C12_Witness ==
    /\ Collapsed
    /\ lines = <<"int f();\n", "\n", " \t\n", "x();\n">>
    /\ cleaned_lines = <<"int f();\n", "\n", "x();\n">>

====
